---- MODULE Spec2Model ----
(***************************************************************************)
(* Model of the crawl orchestration engine of lightnovel-crawler:          *)
(* Scraper (core/scrape.js, carried in adapters/mtlbooks.js 385-787),      *)
(* BrowserManager (core/browser.js), the helpers of core/utils.js          *)
(* (unnamed/part_000) and the DELETE /api/crawl/:id handler (web-ui.js).   *)
(*                                                                         *)
(* A JavaScript string is a sequence of one-character strings; the string  *)
(* "2-" is <<"2", "-">>.  A value that JavaScript leaves undefined is the  *)
(* tagged value Undef, null is Null.                                       *)
(***************************************************************************)
EXTENDS Integers, Sequences, FiniteSets, TLC

\* ------------------------------------------------------------------ bounds
\* chapters in the longest listing the site returns
MaxChapters == 5
\* invocations of scrape() against one output directory
MaxRuns == 2

\* config.retries of the modelled runs (--retries)
Retries == 1
\* chapters of the novel whose checkpoints the cadence runs start from
LongNovel == 6
\* the largest small number in a token of a range expression, and the
\* largest totalChapters, of the modelled calls of parseRange
MaxNum == 5
MaxTotal == 10
\* the idle window (idleTime) and the overall timeout of waitForNetworkIdle,
\* in ticks of the clock
IdleTicks == 2
TimeoutTicks == 6
\* config.retries of the runs that follow the backoff schedule to its cap
LongRetries == 4
\* the largest bound of a configured delay pair, and the number of values
\* of Math.random() that are told apart
MaxDelay == 2
Grain == 4
\* the longest text given for --concurrency or in a JSON body, and the
\* largest number requested as a concurrency
MaxText == 2
MaxRequested == 12
\* the selectors of a metadata field ([selector, ...fallbacks])
MaxSelectors == 3
\* the selectors of the content container
MaxContainers == 3
\* the chapter links of the longest listing page, and the largest chapter
\* number in the url or the title of a link
MaxLinks == 3
MaxLinkNum == 2

\* ------------------------------------------------- program constants
\* saveState every 5th completed chapter (scrapeChapter)
SaveEvery == 5
\* retryWithBackoff: the defaults handed to p-retry
minTimeout == 1000
maxTimeout == 5000
factor == 2
\* extractChapterContent: a container must have more than 100 characters
MinContent == 100
\* loadAllChapters: const maxAttempts = 10, and its five load-more selectors
maxAttempts == 10
LoadMoreSelectors == 5

\* --------------------------------------------------------------- helpers
Max(a, b) == IF a >= b THEN a ELSE b
Min(a, b) == IF a <= b THEN a ELSE b

Range(s) == {s[i] : i \in 1..Len(s)}

\* Array.prototype.includes
Includes(s, x) == \E i \in 1..Len(s) : s[i] = x

\* the elements of a finite set of integers in ascending order
\* (Array.from(set).sort((a, b) => a - b))
RECURSIVE SortedSeq(_)
SortedSeq(S) ==
    IF S = {} THEN <<>>
    ELSE LET m == CHOOSE x \in S : \A y \in S : x <= y
         IN  <<m>> \o SortedSeq(S \ {m})

\* Array.from({ length: n }, (_, i) => i + 1)
OneTo(n) == [i \in 1..n |-> i]

\* ------------------------------------------------------ strings, parseInt
Digits == {"0", "1", "2", "3", "4", "5", "6", "7", "8", "9"}

DigitVal(c) ==
    CASE c = "0" -> 0 [] c = "1" -> 1 [] c = "2" -> 2 [] c = "3" -> 3
      [] c = "4" -> 4 [] c = "5" -> 5 [] c = "6" -> 6 [] c = "7" -> 7
      [] c = "8" -> 8 [] c = "9" -> 9

\* NaN: no parseInt result on the strings parseRange passes is negative
\* (the parts of a token never hold a "-"), so -1 stands for NaN.
NaN == -1

\* String.prototype.split(sep) for a one-character separator
RECURSIVE SplitFrom(_, _, _)
SplitFrom(s, sep, cur) ==
    IF s = <<>> THEN <<cur>>
    ELSE IF Head(s) = sep THEN <<cur>> \o SplitFrom(Tail(s), sep, <<>>)
         ELSE SplitFrom(Tail(s), sep, Append(cur, Head(s)))

Split(s, sep) == SplitFrom(s, sep, <<>>)

\* parseInt(s): the value of the longest prefix of decimal digits, NaN when
\* that prefix is empty.
RECURSIVE ParseDigits(_, _, _)
ParseDigits(s, acc, seen) ==
    IF s = <<>> \/ Head(s) \notin Digits
    THEN IF seen THEN acc ELSE NaN
    ELSE ParseDigits(Tail(s), acc * 10 + DigitVal(Head(s)), TRUE)

ParseInt(s) == ParseDigits(s, 0, FALSE)

\* ------------------------------------------------------------ parseRange
\* one token whose missing start counts from 0
TokenIndexesFromZero(range, totalChapters) ==
    IF Includes(range, "-")
    THEN LET parts    == Split(range, "-")
             startStr == parts[1]
             endStr   == parts[2]
             pStart   == ParseInt(startStr)
             start    == IF pStart = NaN THEN 0 ELSE pStart
             end      == IF endStr # <<>> THEN ParseInt(endStr) ELSE totalChapters
         IN  IF end = NaN THEN {}
             ELSE start..Min(end, totalChapters)
    ELSE LET num == ParseInt(range)
         IN  IF num # NaN /\ num > 0 /\ num <= totalChapters THEN {num} ELSE {}

\* one token that does not clamp the end of an interval to totalChapters
TokenIndexesUnclamped(range, totalChapters) ==
    IF Includes(range, "-")
    THEN LET parts    == Split(range, "-")
             startStr == parts[1]
             endStr   == parts[2]
             pStart   == ParseInt(startStr)
             start    == IF pStart = NaN \/ pStart = 0 THEN 1 ELSE pStart
             end      == IF endStr # <<>> THEN ParseInt(endStr) ELSE totalChapters
         IN  IF end = NaN THEN {} ELSE start..end
    ELSE LET num == ParseInt(range)
         IN  IF num # NaN /\ num > 0 /\ num <= totalChapters THEN {num} ELSE {}

\* one comma-separated token of the range string
TokenIndexes(range, totalChapters) ==
    IF Includes(range, "-")
    THEN LET parts    == Split(range, "-")
             startStr == parts[1]
             endStr   == parts[2]
             pStart   == ParseInt(startStr)
             start    == IF pStart = NaN \/ pStart = 0 THEN 1 ELSE pStart
             end      == IF endStr # <<>> THEN ParseInt(endStr) ELSE totalChapters
         IN  IF end = NaN THEN {}
             ELSE start..Min(end, totalChapters)
    ELSE LET num == ParseInt(range)
         IN  IF num # NaN /\ num > 0 /\ num <= totalChapters THEN {num} ELSE {}

parseRange(rangeStr, totalChapters) ==
    IF rangeStr = <<>> \/ rangeStr = <<"a", "l", "l">>
    THEN OneTo(totalChapters)
    ELSE LET ranges == Split(rangeStr, ",")
         IN  SortedSeq(UNION {TokenIndexes(ranges[k], totalChapters) :
                                  k \in 1..Len(ranges)})

\* ------------------------------------------------------ JavaScript values
Undef   == [t |-> "undefined"]
Null    == [t |-> "null"]
\* a Date object, and the ISO string Date.prototype.toJSON turns it into
DateObj == [t |-> "Date"]
IsoStr  == [t |-> "string", v |-> "iso-date"]
Str(x)  == [t |-> "string", v |-> x]
Num(n)  == [t |-> "number", v |-> n]
Arr(s)  == [t |-> "array", v |-> s]

\* ToBoolean of the values the state holds ("" and NaN do not occur in it)
Truthy(v) ==
    CASE v.t = "undefined" -> FALSE
      [] v.t = "null"      -> FALSE
      [] v.t = "number"    -> v.v # 0
      [] OTHER             -> TRUE

\* a ChapterInfo: the adapter derives the id from the chapter number
\* (id = `chapter-${chapterNum}`); title and url are carried unread.
ChapterId(n) == <<"chapter", n>>
Chapter(n)   == [index |-> n, id |-> ChapterId(n)]

\* NovelMetadata: the title is validated non-empty by the adapter; the only
\* field the orchestrator writes afterwards is totalChapters.
Metadata(n) == [t |-> "object", totalChapters |-> n]

\* --------------------------------------------------------- configuration
MtlUrl   == "https://mtlbooks.com/novel/x"
OtherUrl == "https://example.org/novel/x"

\* MtlBooksAdapter.canHandle: hostname.includes('mtlbooks.com')
canHandle(url) == url = MtlUrl

\* range strings of the modelled runs; <<>> is config.range null or ""
\* (the CLI and the web UI turn "all" into null)
NoRange == <<>>
Ranges  == {NoRange, <<"2", "-">>}

\* ------------------------------------------------------------ CrawlState
NoState == Null

\* Scraper.initState
initState(url) ==
    [t                  |-> "object",
     url                |-> Str(url),
     metadata           |-> Null,
     chapters           |-> Arr(<<>>),
     lastCompletedIndex |-> Num(0),
     completedChapters  |-> Arr(<<>>),
     lastUpdated        |-> DateObj]

\* JSON.stringify replaces a Date by its toJSON() string; every other value
\* of the state is written as it is (an undefined property is left out and
\* reads back undefined).
ToJSON(v) == IF v.t = "Date" THEN IsoStr ELSE v

\* the content of state.json: absent, text that is not JSON, or a JSON value
FileAbsent  == [t |-> "absent"]
FileGarbage == [t |-> "garbage"]

\* JSON.stringify(this.state, null, 2), as JSON.parse reads it back
Stringify(st) == [st EXCEPT !.lastUpdated = ToJSON(@)]

\* an object with no property at all: the JSON text {}
EmptyObject ==
    [t                  |-> "object",
     url                |-> Undef,
     metadata           |-> Undef,
     chapters           |-> Undef,
     lastCompletedIndex |-> Undef,
     completedChapters  |-> Undef,
     lastUpdated        |-> Undef]

\* what state.json holds before the first run
InitialFiles == {FileAbsent, FileGarbage, Null, EmptyObject}

\* loadState that never reads the checkpoint
loadStateFresh(file, cfg, readOk) == initState(cfg.url)

\* Scraper.loadState: the state it leaves in this.state.  readOk is whether
\* fs.readFile succeeded (readFile returns null otherwise, and
\* JSON.parse(null) is null).  A property access on null, or JSON.parse of
\* text that is not JSON, throws inside the try and ends in initState().
loadState(file, cfg, readOk) ==
    IF cfg.resume /\ file.t # "absent"
    THEN LET stateData == IF readOk THEN file ELSE Null
         IN  IF stateData.t # "object"
             THEN initState(cfg.url)
             ELSE IF ~Truthy(stateData.completedChapters)
                  THEN [stateData EXCEPT !.completedChapters = Arr(<<>>)]
                  ELSE stateData
    ELSE initState(cfg.url)

\* the chapters / completed ids of a state, [] when the property is missing
ChaptersOf(st)  == IF st.t = "object" /\ st.chapters.t = "array"
                   THEN st.chapters.v ELSE <<>>
CompletedOf(st) == IF st.t = "object" /\ st.completedChapters.t = "array"
                   THEN st.completedChapters.v ELSE <<>>

\* ---------------------------------------------------- getChaptersToScrape
\* the filter with the force flag left out of the completed test
filterChaptersNoForce(chapters, completedChapters, targetIndexes, force) ==
    SelectSeq(chapters,
              LAMBDA chapter :
                  /\ Includes(targetIndexes, chapter.index)
                  /\ ~Includes(completedChapters, chapter.id))

\* the filter of getChaptersToScrape, given the resolved targetIndexes
filterChapters(chapters, completedChapters, targetIndexes, force) ==
    SelectSeq(chapters,
              LAMBDA chapter :
                  /\ Includes(targetIndexes, chapter.index)
                  /\ ~(~force /\ Includes(completedChapters, chapter.id)))

\* the indexes the configured range resolves to against a listing of n items
targetIndexes(cfg, n) ==
    IF cfg.range # <<>> THEN parseRange(cfg.range, n) ELSE OneTo(n)

\* Scraper.getChaptersToScrape
getChaptersToScrape(st, cfg) ==
    IF ~Truthy(st.chapters) \/ Len(st.chapters.v) = 0
    THEN <<>>
    ELSE filterChapters(st.chapters.v, st.completedChapters.v,
                        targetIndexes(cfg, Len(st.chapters.v)), cfg.force)

\* ------------------------------------------------- the commit of a chapter
\* scrapeChapter, "Update state": no await separates the three writes
\* a push onto a copy of the list taken before the fetch
pushCompletedStale(completedChapters, id) == <<id>>

pushCompleted(completedChapters, id) ==
    IF Includes(completedChapters, id) THEN completedChapters
    ELSE Append(completedChapters, id)

\* a commit that records the id of the chapter after the one fetched
commitNext(st, chapterInfo) ==
    [st EXCEPT
       !.completedChapters  =
           Arr(pushCompleted(@.v, ChapterId(chapterInfo.index + 1))),
       !.lastCompletedIndex = Num(Max(IF Truthy(@) THEN @.v ELSE 0,
                                      chapterInfo.index)),
       !.lastUpdated        = DateObj]

commit(st, chapterInfo) ==
    [st EXCEPT
       !.completedChapters  = Arr(pushCompleted(@.v, chapterInfo.id)),
       !.lastCompletedIndex = Num(Max(IF Truthy(@) THEN @.v ELSE 0,
                                      chapterInfo.index)),
       !.lastUpdated        = DateObj]

\* "Save state periodically"
saveDue(st) == Len(st.completedChapters.v) % SaveEvery = 0

\* ---------------------------------------------------------------- state
VARIABLES
    config,      \* this.config: url, range, force, resume, concurrency, retries
    site,        \* the chapter list the novel page serves
    faults,      \* whether the file system may fail a read or a write
    file,        \* the content of <outputDir>/state.json
    state,       \* this.state
    browser,     \* browserManager.browser is not null
    pc,          \* where scrape() is
    pending,     \* the error the try block of scrape() threw, "none" if none
    thrown,      \* the error scrape() (or the constructor) rejected with
    tasks,       \* the limiter's tasks, in the order they were enqueued
    progress,    \* this.progress (ProgressTracker)
    stop,        \* the DELETE /api/crawl/:id handler: none, closing,
                 \* returned, threw
    run,         \* which invocation of the crawler this is
    loaded,      \* completed ids in this.state when loadState returned
    previous,    \* completed ids in the state the previous run ended with
    sinceSave,   \* chapters fetched since saveState was last called
    wait,        \* one call of browserManager.waitForNetworkIdle
    call         \* one call of parseRange: its arguments and its result

vars == <<config, site, faults, file, state, browser, pc, pending, thrown, tasks,
          progress, stop, run, loaded, previous, sinceSave, wait, call>>

\* outcomes of fs.writeFile / fs.readFile
IoOutcomes == IF faults THEN BOOLEAN ELSE {TRUE}

\* the listings the adapter's extractChapterList can return: sorted by
\* index; the chapter numbers of a page need not be 1..n
Listings ==
    { [i \in 1..MaxChapters |-> Chapter(i)],
      <<Chapter(1), Chapter(3)>> }

Configs ==
    [url         : {MtlUrl, OtherUrl},
     range       : Ranges,
     force       : BOOLEAN,
     resume      : {TRUE},
     concurrency : {1, 2},
     retries     : {Retries},
     delay       : {<<1, 1>>}]

NoProgress == [total |-> 0, current |-> 0, errors |-> 0]

\* a call of parseRange(rangeStr, totalChapters) that has not returned;
\* expr is the range expression rangeStr is the text of
newCall(expr, rangeStr, totalChapters) ==
    [expr          |-> expr,
     rangeStr      |-> rangeStr,
     totalChapters |-> totalChapters,
     returned      |-> FALSE,
     result        |-> <<>>]

\* no call is made
NoCall == newCall(<<>>, <<>>, 0)

\* a timer variable of waitForNetworkIdle whose timer is not pending
\* (never set, cleared, or fired)
NoTimer == -1

\* a call of waitForNetworkIdle for the page of `caller`, before the
\* executor of its promise has run
newWait(caller) ==
    [st           |-> "new",
     caller       |-> caller,
     idleTimer    |-> NoTimer,
     timeoutTimer |-> NoTimer,
     onRequest    |-> FALSE,    \* the 'request' listener is on the page
     onResponse   |-> FALSE,    \* the 'response' listener is on the page
     clock        |-> 0,        \* ticks since the call
     sinceEvent   |-> 0,        \* ticks since the last event (or the call)
     maxGap       |-> 0,        \* the longest silence so far, in ticks
     lastEvent    |-> "none",
     settles      |-> 0,        \* calls of resolve() and reject()
     outcome      |-> "none",   \* settled (resolved), timedOut (rejected)
     result       |-> "none",   \* what the caller made of it
     error        |-> "none"]

\* no call is under way
NoWait == [newWait("none") EXCEPT !.st = "none"]

InitWith(configs, faultSet, listings, files) ==
    /\ config \in configs
    /\ site \in listings
    /\ faults \in faultSet
    /\ file \in files
    /\ state = NoState
    /\ browser = FALSE
    /\ pc = "new"
    /\ pending = "none"
    /\ thrown = "none"
    /\ tasks = <<>>
    /\ progress = NoProgress
    /\ stop = "none"
    /\ run = 1
    /\ loaded = {}
    /\ previous = {}
    /\ sinceSave = 0

Init ==
    /\ InitWith(Configs, BOOLEAN, Listings, InitialFiles)
    /\ wait = NoWait
    /\ call = NoCall

\* ------------------------------------------------------------ constructor
\* new Scraper(config): createAdapter throws when no adapter handles the url
Construct ==
    /\ pc = "new"
    /\ IF canHandle(config.url)
       THEN pc' = "ready" /\ thrown' = thrown
       ELSE pc' = "rejected" /\ thrown' = "AdapterNotFound"
    /\ UNCHANGED <<config, site, faults, file, state, browser, pending, tasks,
                   progress, stop, run, loaded, previous,
                   sinceSave, wait, call>>

\* ---------------------------------------------------------------- scrape
\* scrape(): await this.browserManager.init()
ScrapeInit ==
    /\ pc = "ready"
    /\ \E launched \in BOOLEAN :
         IF launched
         THEN browser' = TRUE /\ pc' = "load" /\ pending' = pending
         ELSE browser' = browser /\ pc' = "finally"
              /\ pending' = "BrowserError"
    /\ UNCHANGED <<config, site, faults, file, state, thrown, tasks, progress,
                   stop, run, loaded, previous,
                   sinceSave, wait, call>>

\* scrape(): await this.loadState()
LoadState ==
    /\ pc = "load"
    /\ \E readOk \in IoOutcomes :
         state' = loadState(file, config, readOk)
    /\ loaded' = Range(CompletedOf(state'))
    /\ pc' = "metadata"
    /\ UNCHANGED <<config, site, faults, file, browser, pending, thrown, tasks,
                   progress, stop, run, previous,
                   sinceSave, wait, call>>

\* a test that takes the metadata of every state for missing
needsMetadataAlways(st) == TRUE

\* scrape(): if (!this.state.metadata)
needsMetadata(st) == ~Truthy(st.metadata)

\* scrape(): if (!this.state.metadata) await this.extractMetadata().
\* createPage relaunches the browser when it is null; the page is closed in
\* the finally of extractMetadata.  saveState has no catch: a failed write
\* is thrown on to scrape().
MetadataPhase ==
    /\ pc = "metadata"
    /\ IF ~needsMetadata(state)
       THEN /\ pc' = "listing"
            /\ UNCHANGED <<state, file, browser, pending, sinceSave>>
       ELSE /\ browser' = TRUE
            /\ \E extracted \in BOOLEAN, written \in IoOutcomes :
                 IF ~extracted
                 THEN /\ pending' = "MetadataError"
                      /\ pc' = "finally"
                      /\ UNCHANGED <<state, file, sinceSave>>
                 ELSE /\ state' = [state EXCEPT !.metadata = Metadata(0)]
                      /\ sinceSave' = 0
                      /\ IF written
                         THEN /\ file' = Stringify(state')
                              /\ pc' = "listing"
                              /\ pending' = pending
                         ELSE /\ file' = file
                              /\ pc' = "finally"
                              /\ pending' = "SaveError"
    /\ UNCHANGED <<config, site, faults, thrown, tasks, progress, stop, run,
                   loaded, previous, wait, call>>

\* scrape(): if (!chapters || chapters.length === 0) extractChapterList()
ListingPhase ==
    /\ pc = "listing"
    /\ IF Truthy(state.chapters) /\ Len(state.chapters.v) # 0
       THEN /\ pc' = "select"
            /\ UNCHANGED <<state, file, browser, pending, sinceSave>>
       ELSE /\ browser' = TRUE
            /\ \E extracted \in BOOLEAN, written \in IoOutcomes :
                 IF ~extracted
                 THEN /\ pending' = "ListingError"
                      /\ pc' = "finally"
                      /\ UNCHANGED <<state, file, sinceSave>>
                 ELSE /\ sinceSave' = 0
                      /\ state' = [state EXCEPT
                                     !.chapters = Arr(site),
                                     !.metadata = Metadata(Len(site))]
                      /\ IF written
                         THEN /\ file' = Stringify(state')
                              /\ pc' = "select"
                              /\ pending' = pending
                         ELSE /\ file' = file
                              /\ pc' = "finally"
                              /\ pending' = "SaveError"
    /\ UNCHANGED <<config, site, faults, thrown, tasks, progress, stop, run,
                   loaded, previous, wait, call>>

\* a task of the limiter before it has run
NewTask(chapter) ==
    [chapter |-> chapter, pc |-> "queued", attempts |-> 0, snapshot |-> Null,
     backoff |-> 0, delay |-> 0, artifact |-> FALSE]

\* scrape(): getChaptersToScrape, the early return when nothing is to be
\* done, new ProgressTracker, and scrapeChapters enqueueing every task
Select ==
    /\ pc = "select"
    /\ LET chaptersToScrape == getChaptersToScrape(state, config)
       IN  IF Len(chaptersToScrape) = 0
           THEN /\ pc' = "finally"
                /\ UNCHANGED <<tasks, progress>>
           ELSE /\ pc' = "scraping"
                /\ tasks' = [i \in 1..Len(chaptersToScrape) |->
                                NewTask(chaptersToScrape[i])]
                /\ progress' = [total   |-> Len(chaptersToScrape),
                                current |-> 0,
                                errors  |-> 0]
    /\ UNCHANGED <<config, site, faults, file, state, browser, pending, thrown,
                   stop, run, loaded, previous,
                   sinceSave, wait, call>>

\* ------------------------------------------------------- scrapeChapters
\* a task holds one of the limiter's slots
Active(t)  == t.pc \in {"sleep", "page", "dead", "saving"}
Settled(t) == t.pc \in {"ok", "failed"}

activeCount == Cardinality({i \in 1..Len(tasks) : Active(tasks[i])})

\* a limiter that starts a queued function whatever is running
TaskStartUnlimited(i) ==
    /\ pc = "scraping"
    /\ tasks[i].pc = "queued"
    /\ \A j \in 1..(i - 1) : tasks[j].pc # "queued"
    /\ tasks' = [tasks EXCEPT ![i].pc = "sleep"]
    /\ UNCHANGED <<config, site, faults, file, state, browser, pc, pending,
                   thrown, progress, stop, run, loaded, previous, sinceSave,
                   wait, call>>

\* p-limit: the queue is first in, first out, and a queued function starts
\* when fewer than `concurrency` are running.  The function starts
\* retryWithBackoff, whose first attempt begins with sleep(delay).
TaskStart(i) ==
    /\ pc = "scraping"
    /\ tasks[i].pc = "queued"
    /\ \A j \in 1..(i - 1) : tasks[j].pc # "queued"
    /\ activeCount < config.concurrency
    /\ tasks' = [tasks EXCEPT ![i].pc = "sleep"]
    /\ UNCHANGED <<config, site, faults, file, state, browser, pc, pending,
                   thrown, progress, stop, run, loaded, previous,
                   sinceSave, wait, call>>

\* the values of Math.random(), in Grain-ths
Randoms == 0 .. (Grain - 1)

\* a sampling whose span is one too wide
getRandomDelayOpen(delayRange, random) ==
    ((random * (delayRange[2] - delayRange[1] + 2)) \div Grain)
        + delayRange[1]

\* getRandomDelay of a [min, max] array:
\* Math.floor(Math.random() * (max - min + 1)) + min
getRandomDelay(delayRange, random) ==
    ((random * (delayRange[2] - delayRange[1] + 1)) \div Grain)
        + delayRange[1]

\* scrapeChapter: getRandomDelay and sleep(delay) are over (the task keeps
\* the length of the suspension that preceded the attempt);
\* browserManager.createPage() calls init(), which launches a browser
\* whenever this.browser is null
CreatePage(i) ==
    /\ tasks[i].pc = "sleep"
    /\ \E random \in Randoms :
           tasks' = [tasks EXCEPT ![i].pc = "page",
                                  ![i].attempts = @ + 1,
                                  ![i].delay =
                                      getRandomDelay(config.delay, random)]
    /\ browser' = TRUE
    /\ UNCHANGED <<config, site, faults, file, state, pc, pending, thrown,
                   progress, stop, run, loaded, previous,
                   sinceSave, wait, call>>

RECURSIVE Pow(_, _)
Pow(b, e) == IF e = 0 THEN 1 ELSE b * Pow(b, e - 1)

\* a schedule without the cap
retryTimeoutUncapped(n) == minTimeout * Pow(factor, n - 1)

\* the wait of p-retry before its n-th retry under the options of
\* retryWithBackoff (randomize is not set)
retryTimeout(n) == Min(minTimeout * Pow(factor, n - 1), maxTimeout)

\* a retry loop that counts the first attempt as one of the retries
afterFailureShort(t, retries) ==
    IF t.attempts < retries
    THEN [t EXCEPT !.pc = "sleep", !.snapshot = Null,
                   !.backoff = retryTimeout(t.attempts)]
    ELSE [t EXCEPT !.pc = "failed", !.attempts = 0, !.snapshot = Null,
                   !.backoff = 0, !.delay = 0]

\* p-retry after a failed attempt: while the attempts made do not exceed
\* `retries` it waits its backoff and calls the function again, which
\* begins with sleep(delay); else the rejection reaches the catch of the
\* limiter function (progress.addError, return {success: false}).  The
\* attempt counter belongs to the p-retry call and ends with it.
afterFailure(t, retries) ==
    IF t.attempts <= retries
    THEN [t EXCEPT !.pc = "sleep", !.snapshot = Null,
                   !.backoff = retryTimeout(t.attempts)]
    ELSE [t EXCEPT !.pc = "failed", !.attempts = 0, !.snapshot = Null,
                   !.backoff = 0, !.delay = 0]

\* a catch that does not count the failed task
addErrorDropped(p, t) == p

addErrorIf(p, t) ==
    IF t.pc = "failed" THEN [p EXCEPT !.errors = @ + 1] ELSE p

\* the resolution reaches the try of the limiter function
\* (progress.increment)
afterSuccess(t) ==
    [t EXCEPT !.pc = "ok", !.attempts = 0, !.snapshot = Null,
              !.backoff = 0, !.delay = 0]

\* scrapeChapter: setupPage, extractChapterContent or saveChapterContent
\* throws (or the page was closed under the task); finally page.close()
FetchFail(i) ==
    /\ tasks[i].pc \in {"page", "dead"}
    /\ LET t == afterFailure(tasks[i], config.retries)
       IN  /\ tasks' = [tasks EXCEPT ![i] = t]
           /\ progress' = addErrorIf(progress, t)
    /\ UNCHANGED <<config, site, faults, file, state, browser, pc, pending,
                   thrown, stop, run, loaded, previous,
                   sinceSave, wait, call>>

\* a saveChapterContent that writes no file
saveChapterContentSkipped(t) == t

\* saveChapterContent: the file of the chapter is in the output directory
saveChapterContent(t) == [t EXCEPT !.artifact = TRUE]

\* scrapeChapter: the content was extracted and its file written; the
\* state is updated, and every SaveEvery-th length starts a saveState, whose
\* JSON.stringify runs before the write is awaited
FetchOk(i) ==
    /\ tasks[i].pc = "page"
    /\ state' = commit(state, tasks[i].chapter)
    /\ IF saveDue(state')
       THEN /\ tasks' = [tasks EXCEPT
                           ![i] = [saveChapterContent(@) EXCEPT
                                     !.pc = "saving",
                                     !.snapshot = Stringify(state')]]
            /\ progress' = progress
            /\ sinceSave' = 0
       ELSE /\ tasks' = [tasks EXCEPT
                           ![i] = afterSuccess(saveChapterContent(@))]
            /\ progress' = [progress EXCEPT !.current = @ + 1]
            /\ sinceSave' = sinceSave + 1
    /\ UNCHANGED <<config, site, faults, file, browser, pc, pending, thrown,
                   stop, run, loaded, previous, wait, call>>

\* the write of the periodic saveState ends; a failed write is thrown out
\* of the attempt like any other error
PeriodicSave(i) ==
    /\ tasks[i].pc = "saving"
    /\ \E written \in IoOutcomes :
         IF written
         THEN /\ file' = tasks[i].snapshot
              /\ tasks' = [tasks EXCEPT ![i] = afterSuccess(@)]
              /\ progress' = [progress EXCEPT !.current = @ + 1]
         ELSE LET t == afterFailure(tasks[i], config.retries)
              IN  /\ file' = file
                  /\ tasks' = [tasks EXCEPT ![i] = t]
                  /\ progress' = addErrorIf(progress, t)
    /\ UNCHANGED <<config, site, faults, state, browser, pc, pending, thrown,
                   stop, run, loaded, previous,
                   sinceSave, wait, call>>

\* scrapeChapters: Promise.all(tasks) resolves, scrape() leaves its try
ScrapeChaptersDone ==
    /\ pc = "scraping"
    /\ \A i \in 1..Len(tasks) : Settled(tasks[i])
    /\ pc' = "finally"
    /\ UNCHANGED <<config, site, faults, file, state, browser, pending, thrown,
                   tasks, progress, stop, run, loaded, previous,
                   sinceSave, wait, call>>

\* ---------------------------------------------------------------- cleanup
\* scrape(), finally: await this.cleanup().  cleanup saves the state when
\* there is one and then closes the browser; an error of saveState leaves
\* cleanup before close() and replaces the error scrape() was throwing.
Cleanup ==
    /\ pc = "finally"
    /\ pc' = "done"
    /\ sinceSave' = IF state = NoState THEN sinceSave ELSE 0
    /\ IF state = NoState
       THEN /\ browser' = FALSE
            /\ thrown' = pending
            /\ file' = file
       ELSE \E written \in IoOutcomes :
              IF written
              THEN /\ file' = Stringify(state)
                   /\ browser' = FALSE
                   /\ thrown' = pending
              ELSE /\ file' = file
                   /\ browser' = browser
                   /\ thrown' = "SaveError"
    /\ UNCHANGED <<config, site, faults, state, pending, tasks, progress, stop,
                   run, loaded, previous, wait, call>>

\* browser.close() closes every page of the browser
closePages(ts) ==
    [i \in 1..Len(ts) |->
        IF ts[i].pc = "page" THEN [ts[i] EXCEPT !.pc = "dead"] ELSE ts[i]]

\* DELETE /api/crawl/:id (and the signal handler of the CLI): await
\* crawl.scraper.cleanup(), once per crawl (the handler deletes the crawl
\* from activeCrawls).  This is cleanup up to its second await: the state,
\* when there is one, is saved; a failed write leaves cleanup there.
Stop ==
    /\ stop = "none"
    /\ pc \notin {"new", "rejected"}
    /\ sinceSave' = IF state = NoState THEN sinceSave ELSE 0
    /\ IF state = NoState
       THEN /\ stop' = "closing"
            /\ file' = file
       ELSE \E written \in IoOutcomes :
              IF written
              THEN /\ file' = Stringify(state)
                   /\ stop' = "closing"
              ELSE /\ file' = file
                   /\ stop' = "threw"
    /\ UNCHANGED <<config, site, faults, state, browser, pc, pending, thrown,
                   tasks, progress, run, loaded, previous, wait, call>>

\* the rest of that cleanup: await this.browserManager.close(), after which
\* the handler answers (the CLI exits)
StopClose ==
    /\ stop = "closing"
    /\ browser' = FALSE
    /\ tasks' = closePages(tasks)
    /\ stop' = "returned"
    /\ UNCHANGED <<config, site, faults, file, state, pc, pending, thrown,
                   progress, run, loaded, previous,
                   sinceSave, wait, call>>

\* the crawler is invoked again with the same configuration and output
\* directory: a new Scraper, a new BrowserManager
NewRun ==
    /\ pc \in {"done", "rejected"}
    /\ run < MaxRuns
    /\ run' = run + 1
    /\ previous' = Range(CompletedOf(state))
    /\ state' = NoState
    /\ browser' = FALSE
    /\ pc' = "new"
    /\ pending' = "none"
    /\ thrown' = "none"
    /\ tasks' = <<>>
    /\ progress' = NoProgress
    /\ stop' = "none"
    /\ loaded' = {}
    /\ sinceSave' = 0
    /\ UNCHANGED <<config, site, faults, file, wait, call>>

\* one crawl, which the dashboard may stop
Next ==
    \/ Construct
    \/ ScrapeInit
    \/ LoadState
    \/ MetadataPhase
    \/ ListingPhase
    \/ Select
    \/ \E i \in 1..Len(tasks) : TaskStart(i)
    \/ \E i \in 1..Len(tasks) : CreatePage(i)
    \/ \E i \in 1..Len(tasks) : FetchFail(i)
    \/ \E i \in 1..Len(tasks) : FetchOk(i)
    \/ \E i \in 1..Len(tasks) : PeriodicSave(i)
    \/ ScrapeChaptersDone
    \/ Cleanup
    \/ Stop
    \/ StopClose

Spec == Init /\ [][Next]_vars

\* the crawler run again and again on one output directory whose file
\* system does not fail, one chapter at a time (--concurrency 1)
InitResume ==
    /\ InitWith({c \in Configs : canHandle(c.url) /\ c.concurrency = 1},
             {FALSE}, Listings, InitialFiles)
    /\ wait = NoWait
    /\ call = NoCall

NextResume ==
    \/ Construct
    \/ ScrapeInit
    \/ LoadState
    \/ MetadataPhase
    \/ ListingPhase
    \/ Select
    \/ \E i \in 1..Len(tasks) : TaskStart(i)
    \/ \E i \in 1..Len(tasks) : CreatePage(i)
    \/ \E i \in 1..Len(tasks) : FetchFail(i)
    \/ \E i \in 1..Len(tasks) : FetchOk(i)
    \/ \E i \in 1..Len(tasks) : PeriodicSave(i)
    \/ ScrapeChaptersDone
    \/ Cleanup
    \/ NewRun

SpecResume == InitResume /\ [][NextResume]_vars

\* state.json as an earlier crawl of a novel of n chapters left it when it
\* had completed the first k of them (--range 1-k)
Checkpoint(n, k) ==
    Stringify([initState(MtlUrl) EXCEPT
                  !.metadata           = Metadata(n),
                  !.chapters           = Arr([i \in 1..n |-> Chapter(i)]),
                  !.completedChapters  = Arr([i \in 1..k |-> ChapterId(i)]),
                  !.lastCompletedIndex = Num(k)])

\* the crawler run on such a checkpoint, all chapters in range
InitCadence ==
    /\ InitWith({c \in Configs : /\ canHandle(c.url)
                              /\ c.concurrency = 1
                              /\ c.range = NoRange},
             {FALSE},
             {[i \in 1..LongNovel |-> Chapter(i)]},
             {Checkpoint(LongNovel, k) : k \in 0..LongNovel})
    /\ wait = NoWait
    /\ call = NoCall

SpecCadence == InitCadence /\ [][NextResume]_vars

\* a crawl, two chapters at a time, that resumes such a checkpoint one
\* chapter short of a periodic save, and that the dashboard may stop
InitOverlap ==
    /\ InitWith({c \in Configs : /\ canHandle(c.url)
                              /\ c.concurrency = 2
                              /\ c.range = NoRange
                              /\ ~c.force},
                {FALSE},
                {[i \in 1..LongNovel |-> Chapter(i)]},
                {Checkpoint(LongNovel, SaveEvery - 1)})
    /\ wait = NoWait
    /\ call = NoCall

SpecOverlap == InitOverlap /\ [][Next]_vars

\* the configured delay pairs with min <= max
Delays == {d \in (0..MaxDelay) \X (0..MaxDelay) : d[1] <= d[2]}

\* a crawl of two chapters, both at once, with LongRetries retries and
\* every delay pair, on a file system that does not fail
InitAttempts ==
    /\ InitWith([url         : {MtlUrl},
                 range       : {NoRange},
                 force       : {FALSE},
                 resume      : {TRUE},
                 concurrency : {2},
                 retries     : {LongRetries},
                 delay       : Delays],
                {FALSE}, {<<Chapter(1), Chapter(2)>>}, {FileAbsent})
    /\ wait = NoWait
    /\ call = NoCall

NextAttempts ==
    \/ Construct
    \/ ScrapeInit
    \/ LoadState
    \/ MetadataPhase
    \/ ListingPhase
    \/ Select
    \/ \E i \in 1..Len(tasks) : TaskStart(i)
    \/ \E i \in 1..Len(tasks) : CreatePage(i)
    \/ \E i \in 1..Len(tasks) : FetchFail(i)
    \/ \E i \in 1..Len(tasks) : FetchOk(i)
    \/ ScrapeChaptersDone
    \/ Cleanup

SpecAttempts == InitAttempts /\ [][NextAttempts]_vars

\* the variables of the crawl
crawlVars == <<config, site, faults, file, state, browser, pc, pending,
               thrown, tasks, progress, stop, run, loaded, previous,
               sinceSave>>

\* ------------------------------------------------- calls of parseRange
\* the decimal text of a number below 100
DigitChar(d) == CHOOSE c \in Digits : DigitVal(c) = d

NumberText(n) ==
    IF n < 10 THEN <<DigitChar(n)>>
    ELSE <<DigitChar(n \div 10), DigitChar(n % 10)>>

\* the numbers of the modelled tokens: the small ones, and two of two
\* digits around the largest total
Numbers == (0..MaxNum) \cup {MaxTotal, MaxTotal + 1}

\* the tokens of the range syntax: N, A-B and A-
Tokens ==
    [kind : {"N", "A-"}, a : Numbers, b : {0}]
       \cup [kind : {"A-B"}, a : Numbers, b : Numbers]

\* tokens outside the syntax: -B, a word, and an interval one of whose
\* bounds is a letter
MalformedTokens ==
    [kind : {"-B", "x-B"}, a : {0}, b : Numbers]
       \cup [kind : {"A-x"}, a : Numbers, b : {0}]
       \cup [kind : {"abc"}, a : {0}, b : {0}]

TokenText(tok) ==
    CASE tok.kind = "N"   -> NumberText(tok.a)
      [] tok.kind = "A-"  -> NumberText(tok.a) \o <<"-">>
      [] tok.kind = "A-B" -> NumberText(tok.a) \o <<"-">> \o NumberText(tok.b)
      [] tok.kind = "-B"  -> <<"-">> \o NumberText(tok.b)
      [] tok.kind = "x-B" -> <<"x", "-">> \o NumberText(tok.b)
      [] tok.kind = "A-x" -> NumberText(tok.a) \o <<"-", "x">>
      [] tok.kind = "abc" -> <<"a", "b", "c">>

\* the tokens of an expression joined by commas
RECURSIVE ExprText(_)
ExprText(expr) ==
    IF Len(expr) = 1 THEN TokenText(expr[1])
    ELSE TokenText(expr[1]) \o <<",">> \o ExprText(Tail(expr))

\* expressions of one token, of two, and of a token written twice before
\* another ("2,2,1-3")
Exprs ==
    {<<t>> : t \in Tokens}
       \cup {<<t, u>> : t \in Tokens, u \in Tokens}
       \cup {<<t, t, u>> : t \in Tokens, u \in Tokens}

\* the set the range syntax gives a token: chapter N, chapters A through B,
\* chapter A to the end, within the chapters 1..total there are
TokenReference(tok, total) ==
    CASE tok.kind = "N"   -> {tok.a} \cap (1..total)
      [] tok.kind = "A-"  -> (tok.a..total) \cap (1..total)
      [] tok.kind = "A-B" -> (tok.a..tok.b) \cap (1..total)

\* ... of an expression; <<>> stands for "all" and for no range at all
Reference(expr, total) ==
    IF expr = <<>> THEN 1..total
    ELSE UNION {TokenReference(expr[k], total) : k \in 1..Len(expr)}

InitRange ==
    /\ InitWith({c \in Configs : /\ canHandle(c.url)
                              /\ c.concurrency = 1
                              /\ c.range = NoRange
                              /\ ~c.force},
                {FALSE}, {<<Chapter(1), Chapter(3)>>}, {FileAbsent})
    /\ wait = NoWait
    /\ \E total \in 0..MaxTotal :
         \/ \E e \in Exprs : call = newCall(e, ExprText(e), total)
         \/ call = newCall(<<>>, <<>>, total)
         \/ call = newCall(<<>>, <<"a", "l", "l">>, total)

\* the call returns
ParseRange ==
    /\ ~call.returned
    /\ call' = [call EXCEPT
                  !.returned = TRUE,
                  !.result   = parseRange(call.rangeStr, call.totalChapters)]
    /\ UNCHANGED <<crawlVars, wait>>

NextRange == ParseRange

SpecRange == InitRange /\ [][NextRange]_vars

\* tokens that are no chapter: the malformed ones and the number 0
BadTokens == MalformedTokens \cup {[kind |-> "N", a |-> 0, b |-> 0]}

\* expressions with malformed tokens among them, up to three in a row
\* ("0,-1,abc"), besides the expressions of the syntax
AnyExprs ==
    Exprs
       \cup {<<t>> : t \in BadTokens}
       \cup {<<t, u>> : t \in Tokens \cup BadTokens, u \in BadTokens}
       \cup {<<t, u>> : t \in BadTokens, u \in Tokens}
       \cup {<<t, u, v>> : t \in BadTokens, u \in BadTokens, v \in BadTokens}

InitRangeAny ==
    /\ InitWith({c \in Configs : /\ canHandle(c.url)
                              /\ c.concurrency = 1
                              /\ c.range = NoRange
                              /\ ~c.force},
                {FALSE}, {<<Chapter(1), Chapter(3)>>}, {FileAbsent})
    /\ wait = NoWait
    /\ \E total \in 0..MaxTotal, e \in AnyExprs :
         call = newCall(e, ExprText(e), total)

SpecRangeAny == InitRangeAny /\ [][NextRange]_vars

\* ------------------------------------------- the requested concurrency
\* the number NaN
NumNaN == [t |-> "NaN"]

\* parseInt(s, radix) for a radix up to 10: an optional "-", then the
\* longest prefix of digits below the radix, NaN when that prefix is empty
RECURSIVE RadixDigits(_, _, _, _)
RadixDigits(s, radix, acc, seen) ==
    IF s = <<>> \/ Head(s) \notin Digits
    THEN IF seen THEN Num(acc) ELSE NumNaN
    ELSE IF DigitVal(Head(s)) >= radix
         THEN IF seen THEN Num(acc) ELSE NumNaN
         ELSE RadixDigits(Tail(s), radix, acc * radix + DigitVal(Head(s)),
                          TRUE)

parseIntRadix(s, radix) ==
    IF s # <<>> /\ Head(s) = "-"
    THEN LET n == RadixDigits(Tail(s), radix, 0, FALSE)
         IN  IF n = NumNaN THEN NumNaN ELSE Num(0 - n.v)
    ELSE RadixDigits(s, radix, 0, FALSE)

\* ToNumber of the values of a JSON body: of a string, the decimal number
\* that is the whole string, else NaN
ToNumber(v) ==
    CASE v.t = "number"    -> v
      [] v.t = "NaN"       -> v
      [] v.t = "null"      -> Num(0)
      [] v.t = "string"    ->
            LET digits == IF v.v # <<>> /\ Head(v.v) = "-"
                          THEN Tail(v.v) ELSE v.v
            IN  IF digits # <<>> /\ \A k \in 1..Len(digits) :
                                       digits[k] \in Digits
                THEN parseIntRadix(v.v, 10)
                ELSE NumNaN
      [] OTHER             -> NumNaN

\* Math.min and Math.max of two arguments
MathMin(a, b) ==
    LET x == ToNumber(a)
        y == ToNumber(b)
    IN  IF x = NumNaN \/ y = NumNaN THEN NumNaN ELSE Num(Min(x.v, y.v))

MathMax(a, b) ==
    LET x == ToNumber(a)
        y == ToNumber(b)
    IN  IF x = NumNaN \/ y = NumNaN THEN NumNaN ELSE Num(Max(x.v, y.v))

\* .option('-c, --concurrency <num>', ..., parseInt, 2): the option parser
\* is called with the text and the previous value of the option, which is
\* the default 2, so the text is read by parseInt(text, 2); without the
\* option the value is the default
optionConcurrency(text) ==
    IF text = Undef THEN Num(2) ELSE parseIntRadix(text.v, 2)

\* the CLI: concurrency: Math.max(1, Math.min(options.concurrency, 10))
cliConcurrency(text) ==
    MathMax(Num(1), MathMin(optionConcurrency(text), Num(10)))

\* POST /api/crawl: concurrency: Math.max(1, Math.min(concurrency || 2, 10))
apiConcurrency(concurrency) ==
    MathMax(Num(1),
            MathMin(IF Truthy(concurrency) THEN concurrency ELSE Num(2),
                    Num(10)))

\* the texts of up to MaxText characters
Alphabet == {"0", "1", "2", "3", "9", "-"}

Texts == UNION {[1..n -> Alphabet] : n \in 1..MaxText}

\* what --concurrency can be given as, and what the concurrency of a JSON
\* body can be
CliValues == {Undef} \cup {Str(t) : t \in Texts}

ApiValues ==
    {Undef, Null} \cup {Num(n) : n \in (0 - 2) .. MaxRequested}
                  \cup {Str(t) : t \in Texts}

\* a request for a crawl before its configuration is built; the result is
\* the config.concurrency that new Scraper(config) hands to pLimit
newRequest(entry, value) ==
    [entry |-> entry, value |-> value, returned |-> FALSE, result |-> Undef]

InitConcurrency ==
    /\ InitWith({c \in Configs : /\ canHandle(c.url)
                              /\ c.concurrency = 1
                              /\ c.range = NoRange
                              /\ ~c.force},
                {FALSE}, {<<Chapter(1), Chapter(3)>>}, {FileAbsent})
    /\ wait = NoWait
    /\ \/ \E v \in CliValues : call = newRequest("cli", v)
       \/ \E v \in ApiValues : call = newRequest("api", v)

\* the action of the CLI builds the configuration
CliConfig ==
    /\ call.entry = "cli"
    /\ ~call.returned
    /\ call' = [call EXCEPT !.returned = TRUE,
                            !.result   = cliConcurrency(call.value)]
    /\ UNCHANGED <<crawlVars, wait>>

\* the handler of POST /api/crawl builds the configuration
ApiConfig ==
    /\ call.entry = "api"
    /\ ~call.returned
    /\ call' = [call EXCEPT !.returned = TRUE,
                            !.result   = apiConcurrency(call.value)]
    /\ UNCHANGED <<crawlVars, wait>>

NextConcurrency ==
    \/ CliConfig
    \/ ApiConfig

SpecConcurrency == InitConcurrency /\ [][NextConcurrency]_vars

\* ------------------------------------------------- metadata resolution
\* String.prototype.trim of a text of letters and spaces
RECURSIVE TrimStart(_)
TrimStart(s) ==
    IF s # <<>> /\ Head(s) = " " THEN TrimStart(Tail(s)) ELSE s

RECURSIVE TrimEnd(_)
TrimEnd(s) ==
    IF s # <<>> /\ s[Len(s)] = " "
    THEN TrimEnd(SubSeq(s, 1, Len(s) - 1))
    ELSE s

Trim(s) == TrimEnd(TrimStart(s))

\* what document.querySelector finds for one selector: no element (null),
\* or an element with its textContent
ElementTexts == {<<>>, <<" ">>, <<"A">>, <<"B", " ">>}

Elements == {Null} \cup {Str(t) : t \in ElementTexts}

\* the pages, by what each selector of the title finds, in the order
\* [selector, ...fallbacks]
Pages == [1..MaxSelectors -> Elements]

\* getText from the k-th selector on: for (const sel of selectors) {
\* const el = document.querySelector(sel);
\* if (el) return el.textContent?.trim() || ''; } return '';
RECURSIVE getTextFrom(_, _)
getTextFrom(page, k) ==
    IF k > Len(page) THEN <<>>
    ELSE IF page[k] # Null THEN Trim(page[k].v)
         ELSE getTextFrom(page, k + 1)

getText(page) == getTextFrom(page, 1)

\* validateData(metadata, 'metadata') of the base adapter: the title is
\* required
validateData(title) == title # <<>>

\* a call of extractMetadata on a page, before page.evaluate has run
newExtraction(page) ==
    [page |-> page, returned |-> FALSE, title |-> <<>>, failed |-> FALSE]

InitMetadata ==
    /\ InitWith({c \in Configs : /\ canHandle(c.url)
                              /\ c.concurrency = 1
                              /\ c.range = NoRange
                              /\ ~c.force},
                {FALSE}, {<<Chapter(1), Chapter(3)>>}, {FileAbsent})
    /\ wait = NoWait
    /\ \E page \in Pages : call = newExtraction(page)

\* extractMetadata: page.evaluate resolves the title, validateData accepts
\* the metadata or the extraction throws
ExtractMetadata ==
    /\ ~call.returned
    /\ LET title == getText(call.page)
       IN  call' = [call EXCEPT !.returned = TRUE,
                                !.title    = title,
                                !.failed   = ~validateData(title)]
    /\ UNCHANGED <<crawlVars, wait>>

NextMetadata == ExtractMetadata

SpecMetadata == InitMetadata /\ [][NextMetadata]_vars

\* ---------------------------------------------------- content container
\* what document.querySelector finds for one content selector: no element,
\* or an element, told by the length of its trimmed textContent
Container(length) == [t |-> "element", length |-> length]

Containers == {Null} \cup {Container(n) : n \in {0, MinContent, MinContent + 1}}

\* the chapter pages, by what each content selector finds, in selector order
ContentPages == [1..MaxContainers -> Containers]

\* let contentContainer = null; for (const selector of contentSelectors) {
\* contentContainer = document.querySelector(selector);
\* if (contentContainer && ...trim().length > 100) break; }
\* from the k-th selector on: the variable keeps what the last
\* querySelector returned
RECURSIVE selectContainer(_, _, _)
selectContainer(page, k, contentContainer) ==
    IF k > Len(page) THEN contentContainer
    ELSE IF page[k] # Null /\ page[k].length > MinContent
         THEN page[k]
         ELSE selectContainer(page, k + 1, page[k])

\* a call of extractChapterContent on a page, before page.evaluate has run
newContent(page) ==
    [page |-> page, returned |-> FALSE, container |-> Null, failed |-> FALSE]

InitContent ==
    /\ InitWith({c \in Configs : /\ canHandle(c.url)
                              /\ c.concurrency = 1
                              /\ c.range = NoRange
                              /\ ~c.force},
                {FALSE}, {<<Chapter(1), Chapter(3)>>}, {FileAbsent})
    /\ wait = NoWait
    /\ \E page \in ContentPages : call = newContent(page)

\* extractChapterContent: page.evaluate throws 'Content container not found'
\* when no container is left in the variable; validateData(result,
\* 'content') accepts every string, the empty one too
ExtractChapterContent ==
    /\ ~call.returned
    /\ LET contentContainer == selectContainer(call.page, 1, Null)
       IN  call' = [call EXCEPT !.returned  = TRUE,
                                !.container = contentContainer,
                                !.failed    = (contentContainer = Null)]
    /\ UNCHANGED <<crawlVars, wait>>

NextContent == ExtractChapterContent

SpecContent == InitContent /\ [][NextContent]_vars

\* ------------------------------------------------------- loadAllChapters
\* what one load-more selector finds when page.evaluate runs
Buttons == {"absent", "disabled", "hidden", "clickable"}

\* the callback of page.evaluate: the first selector, in order, whose
\* button is there, enabled and displayed is clicked (0: none is)
clickedSelector(buttons) ==
    IF \E k \in 1..Len(buttons) : buttons[k] = "clickable"
    THEN CHOOSE k \in 1..Len(buttons) :
            /\ buttons[k] = "clickable"
            /\ \A j \in 1..(k - 1) : buttons[j] # "clickable"
    ELSE 0

\* a call of loadAllChapters at its while loop
newLoad ==
    [pc            |-> "evaluate",
     loadMoreFound |-> TRUE,
     attempts      |-> 0,
     clicks        |-> 0,     \* btn.click() calls
     lastClicked   |-> 0,     \* the selector of the last click
     scrolls       |-> 0]     \* window.scrollTo calls

InitLoad ==
    /\ InitWith({c \in Configs : /\ canHandle(c.url)
                              /\ c.concurrency = 1
                              /\ c.range = NoRange
                              /\ ~c.force},
                {FALSE}, {<<Chapter(1), Chapter(3)>>}, {FileAbsent})
    /\ wait = NoWait
    /\ call = newLoad

\* the loop test of the first iteration, and page.evaluate on whatever
\* buttons the page shows now
EvaluateLoadMore ==
    /\ call.pc = "evaluate"
    /\ \E buttons \in [1..LoadMoreSelectors -> Buttons] :
         LET k == clickedSelector(buttons)
         IN  call' = IF k # 0
                     THEN [call EXCEPT !.pc            = "wait",
                                       !.loadMoreFound = TRUE,
                                       !.clicks        = @ + 1,
                                       !.lastClicked   = k]
                     ELSE [call EXCEPT !.pc            = "scroll",
                                       !.loadMoreFound = FALSE]
    /\ UNCHANGED <<crawlVars, wait>>

\* a wait that does not count the attempt
WaitAfterClickUncounted ==
    /\ call.pc = "wait"
    /\ call' = [call EXCEPT !.pc = "evaluate"]
    /\ UNCHANGED <<crawlVars, wait>>

\* if (loadMoreFound) { await safeWaitForTimeout(page, 2000); attempts++ }
\* and the loop test: loadMoreFound && attempts < maxAttempts
WaitAfterClick ==
    /\ call.pc = "wait"
    /\ call' = [call EXCEPT
                  !.attempts = @ + 1,
                  !.pc = IF call.attempts + 1 < maxAttempts
                         THEN "evaluate" ELSE "scroll"]
    /\ UNCHANGED <<crawlVars, wait>>

\* page.evaluate(() => window.scrollTo(0, document.body.scrollHeight))
ScrollToBottom ==
    /\ call.pc = "scroll"
    /\ call' = [call EXCEPT !.pc = "scrollWait", !.scrolls = @ + 1]
    /\ UNCHANGED <<crawlVars, wait>>

\* await safeWaitForTimeout(page, 1000), and the return
LoadReturn ==
    /\ call.pc = "scrollWait"
    /\ call' = [call EXCEPT !.pc = "returned"]
    /\ UNCHANGED <<crawlVars, wait>>

NextLoad ==
    \/ EvaluateLoadMore
    \/ WaitAfterClick
    \/ ScrollToBottom
    \/ LoadReturn

SpecLoad == InitLoad /\ [][NextLoad]_vars

\* page.evaluate and the timeouts resolve
SpecLoadFair ==
    /\ SpecLoad
    /\ WF_vars(EvaluateLoadMore)
    /\ WF_vars(WaitAfterClick)
    /\ WF_vars(ScrollToBottom)
    /\ WF_vars(LoadReturn)

\* ---------------------------------------------------- extractChapterList
\* a link without a chapter number in its url, or in its title
NoNumber == -1

\* the chapter links of a listing page, in document order: what
\* /chapter[_-]?(\d+)/i finds in the url and /(?:chapter|ch\.?)\s*(\d+)/i
\* in the title of each
Links ==
    [urlNum   : {NoNumber} \cup (0..MaxLinkNum),
     titleNum : {NoNumber} \cup (0..MaxLinkNum)]

LinkLists == UNION {[1..n -> Links] : n \in 0..MaxLinks}

\* the callback of map: chapterNum is index + 1 unless the url, or else the
\* title, holds a number; the link stands for the title and url of the item
toChapter(links, k) ==
    LET chapterNum == IF links[k].urlNum # NoNumber THEN links[k].urlNum
                      ELSE IF links[k].titleNum # NoNumber
                           THEN links[k].titleNum
                           ELSE k
    IN  [index |-> chapterNum, id |-> ChapterId(chapterNum), link |-> k]

\* a sort that leaves the items in document order
sortByIndexNone(chapters) == chapters

\* Array.prototype.sort((a, b) => a.index - b.index), which is stable
RECURSIVE sortByIndex(_)
sortByIndex(chapters) ==
    IF chapters = <<>> THEN <<>>
    ELSE LET m == CHOOSE k \in 1..Len(chapters) :
                     /\ \A j \in 1..Len(chapters) :
                           chapters[k].index <= chapters[j].index
                     /\ \A j \in 1..(k - 1) :
                           chapters[j].index # chapters[k].index
             rest == [j \in 1..(Len(chapters) - 1) |->
                         IF j < m THEN chapters[j] ELSE chapters[j + 1]]
         IN  <<chapters[m]>> \o sortByIndex(rest)

\* chapterLinks.map(...).filter(ch => ch.url && ch.title).sort(...): every
\* item has a url and a title (`Chapter ${chapterNum}` when the link has
\* no text)
listChapters(links) ==
    sortByIndex([k \in 1..Len(links) |-> toChapter(links, k)])

\* validateData(chapters, 'chapters'): a non-empty array whose items have
\* an id, a title, a url and a number for index
validateChapters(chapters) ==
    /\ Len(chapters) > 0
    /\ \A k \in 1..Len(chapters) :
          chapters[k].id # <<>> /\ chapters[k].index \in Int

\* a call of extractChapterList on a page, after loadAllChapters
newListing(links) ==
    [links |-> links, returned |-> FALSE, chapters |-> <<>>, failed |-> FALSE]

InitListing ==
    /\ InitWith({c \in Configs : /\ canHandle(c.url)
                              /\ c.concurrency = 1
                              /\ c.range = NoRange
                              /\ ~c.force},
                {FALSE}, {<<Chapter(1), Chapter(3)>>}, {FileAbsent})
    /\ wait = NoWait
    /\ \E links \in LinkLists : call = newListing(links)

\* extractChapterList: page.evaluate throws when the page has no chapter
\* link, and validateData rejects an empty list
ExtractChapterList ==
    /\ ~call.returned
    /\ LET chapters == listChapters(call.links)
           failed   == Len(call.links) = 0 \/ ~validateChapters(chapters)
       IN  call' = [call EXCEPT
                      !.returned = TRUE,
                      !.failed   = failed,
                      !.chapters = IF failed THEN <<>> ELSE chapters]
    /\ UNCHANGED <<crawlVars, wait>>

NextListing == ExtractChapterList

SpecListing == InitListing /\ [][NextListing]_vars

\* ----------------------------------------------- the summary of the tasks
\* what the limiter function of a settled task resolves with: the try
\* block returns nothing, the catch returns {success: false, chapter, error}
taskResult(t) ==
    IF t.pc = "failed" THEN [t |-> "object", success |-> FALSE] ELSE Undef

\* const results = await Promise.all(tasks)
taskResults(ts) == [i \in 1..Len(ts) |-> taskResult(ts[i])]

\* successful = results.filter(r => r !== undefined && r.success !== false)
\* failed     = results.filter(r => r && r.success === false)
summary(results) ==
    [successful |->
        Cardinality({i \in 1..Len(results) :
                        /\ results[i] # Undef
                        /\ results[i].success # FALSE}),
     failed |->
        Cardinality({i \in 1..Len(results) :
                        /\ Truthy(results[i])
                        /\ results[i].success = FALSE})]

\* ---------------------------------------------------- waitForNetworkIdle
\* a cleanup that leaves the overall timer running
cleanupLeaky(w) ==
    [w EXCEPT !.idleTimer = NoTimer,
              !.onRequest = FALSE,
              !.onResponse = FALSE]

\* cleanup(): clearTimeout of both timers, page.off of both listeners
cleanup(w) ==
    [w EXCEPT !.idleTimer    = NoTimer,
              !.timeoutTimer = NoTimer,
              !.onRequest    = FALSE,
              !.onResponse   = FALSE]

\* resolve() or reject(): a promise keeps the first outcome it is given
settle(w, outcome) ==
    [w EXCEPT !.st      = "done",
              !.settles = @ + 1,
              !.outcome = IF @ = "none" THEN outcome ELSE @]

\* an executor that starts no overall timer
WaitStartNoTimeout ==
    /\ wait.st = "new"
    /\ wait' = [wait EXCEPT !.st         = "waiting",
                            !.onRequest  = TRUE,
                            !.onResponse = TRUE,
                            !.idleTimer  = IdleTicks]
    /\ UNCHANGED <<crawlVars, call>>

\* the executor: page.on of both listeners, then both timers are started
WaitStart ==
    /\ wait.st = "new"
    /\ wait' = [wait EXCEPT !.st           = "waiting",
                            !.onRequest    = TRUE,
                            !.onResponse   = TRUE,
                            !.idleTimer    = IdleTicks,
                            !.timeoutTimer = TimeoutTicks]
    /\ UNCHANGED <<crawlVars, call>>

\* onRequest: the idle timer is cleared, and no timer is started
OnRequest ==
    /\ wait.onRequest
    /\ wait' = [wait EXCEPT !.idleTimer  = NoTimer,
                            !.sinceEvent = 0,
                            !.lastEvent  = "request"]
    /\ UNCHANGED <<crawlVars, call>>

\* an onResponse that leaves the idle timer running
OnResponseKeepsTimer ==
    /\ wait.onResponse
    /\ wait' = [wait EXCEPT !.sinceEvent = 0,
                            !.lastEvent  = "response"]
    /\ UNCHANGED <<crawlVars, call>>

\* onResponse: the idle timer is cleared and started again
OnResponse ==
    /\ wait.onResponse
    /\ wait' = [wait EXCEPT !.idleTimer  = IdleTicks,
                            !.sinceEvent = 0,
                            !.lastEvent  = "response"]
    /\ UNCHANGED <<crawlVars, call>>

\* time passes while a timer is pending and none is due
Tick ==
    /\ wait.idleTimer > 0 \/ wait.timeoutTimer > 0
    /\ wait.idleTimer # 0 /\ wait.timeoutTimer # 0
    /\ wait' = [wait EXCEPT
                  !.idleTimer    = IF @ = NoTimer THEN @ ELSE @ - 1,
                  !.timeoutTimer = IF @ = NoTimer THEN @ ELSE @ - 1,
                  !.clock        = @ + 1,
                  !.sinceEvent   = @ + 1,
                  !.maxGap       = Max(@, wait.sinceEvent + 1)]
    /\ UNCHANGED <<crawlVars, call>>

\* the callback of the idle timer: cleanup(); resolve()
IdleFire ==
    /\ wait.idleTimer = 0
    /\ wait' = settle(cleanup(wait), "settled")
    /\ UNCHANGED <<crawlVars, call>>

\* the callback of the overall timer: cleanup(); reject(new Error(...))
TimeoutFire ==
    /\ wait.timeoutTimer = 0
    /\ wait' = settle(cleanup(wait), "timedOut")
    /\ UNCHANGED <<crawlVars, call>>

\* the caller: page.safeWaitForLoadState awaits the promise in no try, and
\* extractMetadata / extractChapterList wrap whatever is thrown in their
\* own error; after a resolution page.evaluate finds the data or does not
Proceed ==
    /\ wait.st = "done"
    /\ wait.result = "none"
    /\ IF wait.outcome = "timedOut"
       THEN wait' = [wait EXCEPT !.result = "failed",
                                 !.error  = "NetworkIdleTimeout"]
       ELSE \E found \in BOOLEAN :
              wait' = IF found
                      THEN [wait EXCEPT !.result = "extracted"]
                      ELSE [wait EXCEPT !.result = "failed",
                                        !.error  = "ExtractionFailed"]
    /\ UNCHANGED <<crawlVars, call>>

\* one wait of the metadata phase or of the listing phase of a crawl
InitIdle ==
    /\ InitWith({c \in Configs : /\ canHandle(c.url)
                              /\ c.concurrency = 1
                              /\ c.range = NoRange
                              /\ ~c.force},
                {FALSE}, {<<Chapter(1), Chapter(3)>>}, {FileAbsent})
    /\ wait \in {newWait("metadata"), newWait("listing")}
    /\ call = NoCall

NextIdle ==
    \/ WaitStart
    \/ OnRequest
    \/ OnResponse
    \/ Tick
    \/ IdleFire
    \/ TimeoutFire
    \/ Proceed

SpecIdle == InitIdle /\ [][NextIdle]_vars

\* the event loop: the executor runs when the promise is made, time passes
\* while a timer is pending, and the callback of a due timer is run;
\* nothing obliges the page to emit a request or a response
SpecIdleFair ==
    /\ SpecIdle
    /\ WF_vars(WaitStart)
    /\ WF_vars(Tick)
    /\ WF_vars(IdleFire)
    /\ WF_vars(TimeoutFire)

\* ================================================================ claims
completedIds == Range(CompletedOf(state))
taskChapters == {tasks[i].chapter : i \in 1..Len(tasks)}
scrapeChaptersReturned == pc \in {"finally", "done"} /\ tasks # <<>>

\* C1: getChaptersToScrape schedules exactly the items whose index is in
\* the resolved index set and, unless force is set, whose id is not in
\* completedChapters; with force it schedules every item whose index is in
\* the set.  Checked for every index set on the states in which scrape()
\* is about to call it, and on the task set scrape() then enqueues.
C1_ScheduledSet ==
    /\ pc = "select" =>
         \A R \in SUBSET (1..MaxChapters), force \in BOOLEAN :
            Range(filterChapters(ChaptersOf(state), CompletedOf(state),
                                 SortedSeq(R), force))
              = {c \in Range(ChaptersOf(state)) :
                    c.index \in R /\ (force \/ c.id \notin completedIds)}
    /\ pc = "scraping" =>
         taskChapters
           = {c \in Range(ChaptersOf(state)) :
                 /\ c.index \in Range(targetIndexes(config,
                                                    Len(ChaptersOf(state))))
                 /\ (config.force \/ c.id \notin loaded)}

\* items c1..c5, completed {c1, c3}, no force: {c2, c4, c5} is scheduled
C1_Witness ==
    /\ pc = "scraping"
    /\ ~config.force
    /\ Len(ChaptersOf(state)) = 5
    /\ loaded = {ChapterId(1), ChapterId(3)}
    /\ taskChapters = {Chapter(2), Chapter(4), Chapter(5)}

\* C2: a second run against the checkpoint of the first, without force,
\* fetches no item that was completed when it loaded the state, and ends
\* with a completed set that contains the one the first run ended with.
C2_Idempotent ==
    (run >= 2 /\ ~config.force) =>
        /\ \A i \in 1..Len(tasks) : tasks[i].chapter.id \notin loaded
        /\ (pc = "done" /\ state # NoState) => previous \subseteq completedIds

C2_Witness ==
    /\ run = 2
    /\ pc = "done"
    /\ ~config.force
    /\ loaded # {}
    /\ \E i \in 1..Len(tasks) : tasks[i].pc = "ok"
    /\ \E i \in 1..Len(tasks) : tasks[i].pc = "failed"
    /\ previous # completedIds

\* a step of some task of the limiter
TaskStep ==
    \E i \in 1..Len(tasks) :
        \/ TaskStart(i)
        \/ CreatePage(i)
        \/ FetchFail(i)
        \/ FetchOk(i)
        \/ PeriodicSave(i)

\* C3: whatever tasks fail, the others are never held up by them (while a
\* task is unsettled some task can take a step), scrapeChapters returns
\* without an error, and when it has returned every task is settled and
\* progress.current + progress.errors is the number of scheduled tasks.
C3_FaultIsolation ==
    /\ pc = "scraping" =>
         \/ \A i \in 1..Len(tasks) : Settled(tasks[i])
         \/ ENABLED TaskStep
    /\ scrapeChaptersReturned =>
         /\ \A i \in 1..Len(tasks) : Settled(tasks[i])
         /\ pending = "none"
         /\ progress.total = Len(tasks)
         /\ progress.current + progress.errors = progress.total
         /\ progress.errors
              = Cardinality({i \in 1..Len(tasks) : tasks[i].pc = "failed"})

C3_Witness ==
    /\ pc = "done"
    /\ thrown = "none"
    /\ \E i, j \in 1..Len(tasks) :
         /\ i < j
         /\ tasks[i].pc = "failed"
         /\ tasks[j].pc = "ok"

\* C4: the id of every task whose fetch was committed is in
\* completedChapters, and lastCompletedIndex is at least its index, under
\* every interleaving of the tasks.
C4_NoLostUpdate ==
    \A i \in 1..Len(tasks) :
        tasks[i].pc \in {"ok", "saving"} =>
            /\ tasks[i].chapter.id \in completedIds
            /\ state.lastCompletedIndex.t = "number"
            /\ state.lastCompletedIndex.v >= tasks[i].chapter.index

\* two tasks in flight together committed in the reverse of their order
C4_Witness ==
    /\ pc = "done"
    /\ Len(CompletedOf(state)) >= 2
    /\ CompletedOf(state)[1] = ChapterId(2)
    /\ CompletedOf(state)[2] = ChapterId(1)
    /\ \A i \in 1..Len(tasks) : tasks[i].pc = "ok"

\* C5: once the stop request has returned, no task starts another attempt
\* and the browser is not launched again.
C5_StopIsFinal ==
    [][stop = "returned" =>
         /\ browser' = FALSE
         /\ \A i \in 1..Len(tasks) :
              /\ Len(tasks') = Len(tasks)
              /\ tasks'[i].attempts <= tasks[i].attempts]_vars

\* C6: a run that fails for want of an adapter, of the metadata or of the
\* listing rejects with that error, and has started no chapter task.
C6_FatalErrorPreserved ==
    /\ pc = "rejected" => thrown = "AdapterNotFound" /\ tasks = <<>>
    /\ (pc = "done" /\ pending \in {"MetadataError", "ListingError"}) =>
          thrown = pending /\ tasks = <<>>

\* C7: when every scheduled task has settled, scrape() returns the state
\* without throwing, however many tasks were exhausted.
C7_BestEffortCompletion ==
    (pc = "done" /\ tasks # <<>>) => thrown = "none"

\* C8: loadState after saveState leaves a state equal in every field to
\* the one that was saved.
C8_RoundTrip ==
    state # NoState => loadState(Stringify(state), config, TRUE) = state

\* C9: whatever state.json holds that is not a state object, loadState
\* leaves the fresh state of initState.
C9_FallsBackToFresh ==
    (pc = "metadata" /\ file \in InitialFiles) =>
        state = initState(config.url)

\* C10: a failed saveState changes neither the outcome of the run nor the
\* outcome of an item: no run ends on the error of a save, and no item
\* whose fetch was committed is reported failed.
C10_SaveFailureNotFatal ==
    /\ pending # "SaveError"
    /\ thrown # "SaveError"
    /\ \A i \in 1..Len(tasks) :
         (tasks[i].pc = "failed" /\ loaded = {}) =>
             tasks[i].chapter.id \notin completedIds

\* C11: whenever a run ends and its last write did not fail, state.json
\* holds the state in memory: when scrape() has settled, and when the
\* cleanup of a stop request returns.
C11_TerminalCheckpoint ==
    /\ []((pc = "done" /\ state # NoState /\ thrown # "SaveError") =>
            file = Stringify(state))
    /\ [][(stop = "closing" /\ stop' = "returned" /\ state # NoState) =>
            file' = Stringify(state')]_vars

\* C12: in every run, fresh, resumed or forced, fewer than five chapters
\* have been fetched successfully since saveState was last called.
C12_PeriodicCadence == sinceSave < SaveEvery

\* the try block of scrape() is past the listing phase
afterListing ==
    \/ pc \in {"select", "scraping"}
    \/ pc \in {"finally", "done"} /\ pending = "none" /\ state # NoState

\* C13: from the listing phase on, every id in completedChapters is the id
\* of a chapter in state.chapters, in a fresh run and in a resumed one.
C13_CompletedAreItems ==
    afterListing => completedIds \subseteq {c.id : c \in Range(ChaptersOf(state))}

\* a resumed run has added to the completed ids it loaded
C13_Witness ==
    /\ run = 2
    /\ pc = "scraping"
    /\ loaded # {}
    /\ completedIds # loaded
    /\ completedIds \subseteq {c.id : c \in Range(ChaptersOf(state))}

\* the largest index among the chapters whose id is completed, 0 if none
maxCompletedIndex ==
    LET done == {c.index : c \in {d \in Range(ChaptersOf(state)) :
                                      d.id \in completedIds}}
    IN  IF done = {} THEN 0 ELSE CHOOSE m \in done : \A n \in done : n <= m

\* C14: lastCompletedIndex is the largest index among the completed
\* chapters (0 if there is none) in every state, and no step of a run
\* lowers it.
C14_LastCompletedIndex ==
    /\ [](state # NoState => state.lastCompletedIndex = Num(maxCompletedIndex))
    /\ [][(state # NoState /\ state' # NoState
             /\ state.lastCompletedIndex.t = "number") =>
            /\ state'.lastCompletedIndex.t = "number"
            /\ state'.lastCompletedIndex.v >= state.lastCompletedIndex.v]_vars

\* the pages scrapeChapter has created and not yet closed in its finally
openPages ==
    Cardinality({i \in 1..Len(tasks) : tasks[i].pc \in {"page", "saving"}})

\* C15: while the chapters are scraped, at most `concurrency` tasks are in
\* flight and at most `concurrency` task pages are open, the other tasks
\* waiting in the limiter's queue.
C15_ConcurrencyBound ==
    /\ activeCount <= config.concurrency
    /\ openPages <= config.concurrency

\* two pages open together while the rest of the tasks wait
C15_Witness ==
    /\ pc = "scraping"
    /\ config.concurrency = 2
    /\ openPages = 2
    /\ Cardinality({i \in 1..Len(tasks) : tasks[i].pc = "queued"}) >= 2

\* C16: a task never makes more than retries + 1 attempts, makes no
\* attempt after one that succeeded, and is reported failed only by the
\* failure of its attempt number retries + 1.
C16_RetryBudget ==
    /\ [](\A i \in 1..Len(tasks) : tasks[i].attempts <= config.retries + 1)
    /\ [][\A i \in 1..Len(tasks) :
            /\ tasks[i].pc = "ok" => tasks'[i] = tasks[i]
            /\ (tasks[i].pc # "failed" /\ tasks'[i].pc = "failed") =>
                   tasks[i].attempts = config.retries + 1]_vars

\* a task is in its last attempt after another was exhausted and a third
\* succeeded at once
C16_Witness ==
    /\ pc = "scraping"
    /\ \E i, j, k \in 1..Len(tasks) :
         /\ tasks[i].pc = "failed"
         /\ tasks[j].pc = "ok"
         /\ tasks[k].pc = "page"
         /\ tasks[k].attempts = config.retries + 1

\* C17: resolve() and reject() are called once between them, by the
\* overall timeout at the latest, and from then on no timer is pending and
\* no listener is on the page.
C17_SettlesOnce ==
    /\ wait.settles <= 1
    /\ wait.st = "waiting" =>
         /\ wait.settles = 0
         /\ wait.timeoutTimer = TimeoutTicks - wait.clock
    /\ wait.st = "done" =>
         /\ wait.settles = 1
         /\ wait.outcome \in {"settled", "timedOut"}
         /\ wait.idleTimer = NoTimer /\ wait.timeoutTimer = NoTimer
         /\ ~wait.onRequest /\ ~wait.onResponse

\* the wait settled after traffic, with time left on the overall timer
C17_Witness ==
    /\ wait.st = "done"
    /\ wait.outcome = "settled"
    /\ wait.lastEvent = "response"
    /\ wait.clock > IdleTicks
    /\ wait.clock < TimeoutTicks

\* C18: while the wait lasts the idle timer is pending and due idleTime
\* after the last request or response (or after the call), so that silence
\* after any event settles the wait.
C18_IdleTimerRestarts ==
    wait.st = "waiting" => wait.idleTimer = IdleTicks - wait.sinceEvent

\* C19: no caller fails on the overall timeout of the wait.
C19_TimeoutNotFatal == wait.error # "NetworkIdleTimeout"

\* C20: on an expression of the range syntax parseRange returns, in
\* ascending order and once each, the chapters of the union of its tokens
\* (N, A through B, A to the end, within 1..total), and on "all" or no
\* range every chapter 1..total.
C20_ParseRangeReference ==
    call.returned =>
        /\ Range(call.result) = Reference(call.expr, call.totalChapters)
        /\ \A i \in 1..(Len(call.result) - 1) :
              call.result[i] < call.result[i + 1]

\* parseRange("2,2,1-3", 10) = [1, 2, 3]
C20_Witness ==
    /\ call.returned
    /\ call.rangeStr = <<"2", ",", "2", ",", "1", "-", "3">>
    /\ call.totalChapters = 10
    /\ call.result = <<1, 2, 3>>

\* C21: an interval token A-B or A- (1 <= A <= B) contributes the indices
\* of the interval with its ends clamped into 1..total, and nothing only
\* when there is no chapter; a start beyond the last chapter therefore
\* contributes the last chapter, as in resolve("8-", 5) = {5}.
C21_IntervalsClamped ==
    LET total    == call.totalChapters
        tok      == call.expr[1]
        clamp(x) == Max(1, Min(x, total))
        clamped  ==
            IF total = 0 THEN {}
            ELSE IF tok.kind = "A-" THEN clamp(tok.a)..total
                 ELSE clamp(tok.a)..clamp(tok.b)
    IN  (/\ call.returned
         /\ Len(call.expr) = 1
         /\ tok.kind # "N"
         /\ tok.a >= 1
         /\ tok.kind = "A-B" => tok.a <= tok.b) =>
            Range(call.result) = clamped

\* C22: a token that is no number and no interval of numbers ("0", "-1",
\* "abc", "x-3", "3-x") contributes no index: the result holds the chapters
\* of the tokens of the syntax and no other.
C22_MalformedIgnored ==
    call.returned =>
        Range(call.result)
          = UNION {TokenReference(call.expr[k], call.totalChapters) :
                     k \in {j \in 1..Len(call.expr) :
                              call.expr[j] \in Tokens}}

\* C23: whatever the expression, the result is strictly ascending (so
\* without a duplicate) and holds only indices in 1..total.
C23_AscendingInRange ==
    call.returned =>
        /\ \A i \in 1..(Len(call.result) - 1) :
              call.result[i] < call.result[i + 1]
        /\ \A i \in 1..Len(call.result) :
              call.result[i] \in 1..call.totalChapters

\* parseRange("1-3,-2", 10), two tokens that overlap, one of them malformed
C23_Witness ==
    /\ call.returned
    /\ call.rangeStr = <<"1", "-", "3", ",", "-", "2">>
    /\ call.totalChapters = 10
    /\ call.result = <<1, 2, 3>>

\* C24: a fresh run with no range (or "all") enqueues a task for every
\* chapter of the listing, whatever its indexes are, and when every task
\* has succeeded every chapter of the listing is completed.
C24_AllSchedulesEveryItem ==
    (config.range = NoRange /\ loaded = {}) =>
        /\ pc = "scraping" => taskChapters = Range(ChaptersOf(state))
        /\ (/\ scrapeChaptersReturned
            /\ \A i \in 1..Len(tasks) : tasks[i].pc = "ok") =>
              completedIds = {c.id : c \in Range(ChaptersOf(state))}

\* C25: the wait before the n-th retry of a task is
\* min(1000 * 2^(n-1), 5000) milliseconds: a task that waits to be retried
\* after n failed attempts holds exactly that wait, which never exceeds
\* 5000, and from one retry of a task to the next the wait never shrinks.
C25_BackoffSchedule ==
    /\ [](\A i \in 1..Len(tasks) :
            (tasks[i].pc = "sleep" /\ tasks[i].attempts >= 1) =>
                /\ tasks[i].backoff =
                       Min(1000 * Pow(2, tasks[i].attempts - 1), 5000)
                /\ tasks[i].backoff <= 5000)
    /\ [][\A i \in 1..Len(tasks) :
            (/\ Len(tasks') = Len(tasks)
             /\ tasks[i].pc # "sleep"
             /\ tasks'[i].pc = "sleep"
             /\ tasks'[i].attempts >= 1) =>
                tasks'[i].backoff >= tasks[i].backoff]_vars

\* a task waits for its fourth retry, the first whose wait is cut to the cap
C25_Witness ==
    \E i \in 1..Len(tasks) :
        /\ tasks[i].pc = "sleep"
        /\ tasks[i].attempts = 4
        /\ tasks[i].backoff = 5000

\* C26: every fetch attempt of a task, the first one and each retry, comes
\* after a suspension whose length is an integer between the configured
\* minDelay and maxDelay, and a page is only created by a task that was
\* suspended.
C26_PolitenessDelay ==
    /\ [](\A i \in 1..Len(tasks) :
            tasks[i].attempts >= 1 =>
                tasks[i].delay \in config.delay[1] .. config.delay[2])
    /\ [][\A i \in 1..Len(tasks) :
            (/\ Len(tasks') = Len(tasks)
             /\ tasks'[i].attempts = tasks[i].attempts + 1) =>
                /\ tasks[i].pc = "sleep"
                /\ tasks'[i].delay \in config.delay[1] .. config.delay[2]]_vars

\* a retry runs after the longest suspension of a pair with min < max
C26_Witness ==
    \E i \in 1..Len(tasks) :
        /\ tasks[i].pc = "page"
        /\ tasks[i].attempts = 2
        /\ config.delay[1] < config.delay[2]
        /\ tasks[i].delay = config.delay[2]

\* C27: whatever concurrency is requested of the CLI or of POST /api/crawl
\* (none, 0, a negative one, one above 10), the concurrency of the
\* configuration that reaches the limiter is an integer from 1 to 10.
C27_ConcurrencyClamped ==
    call.returned => call.result \in {Num(n) : n \in 1..10}

\* C28: waitForNetworkIdle cannot deadlock: every wait is resolved in the
\* end, none lasts longer than the overall timeout, and a wait during which
\* no request and no response occurs resolves settled when the idle window
\* has passed.
C28_NoDeadlock ==
    /\ <>(wait.st = "done")
    /\ [](wait.clock <= TimeoutTicks)
    /\ []((wait.lastEvent = "none" /\ wait.st = "waiting") =>
             wait.clock <= IdleTicks)
    /\ []((wait.lastEvent = "none" /\ wait.st = "done") =>
             (wait.outcome = "settled" /\ wait.clock = IdleTicks))

\* a wait without any event settled at the end of the idle window
C28_Witness ==
    /\ wait.st = "done"
    /\ wait.lastEvent = "none"
    /\ wait.outcome = "settled"
    /\ wait.clock = IdleTicks

\* C29: a wait whose events (from the call on) are always less than the
\* idle window apart is never resolved settled; once that activity has
\* lasted to the overall timeout the wait resolves timedOut.
C29_ContinuousActivity ==
    /\ []((wait.st = "done" /\ wait.maxGap < IdleTicks) =>
             (wait.outcome = "timedOut" /\ wait.clock = TimeoutTicks))
    /\ ((wait.st = "waiting" /\ wait.clock = TimeoutTicks
                              /\ wait.maxGap < IdleTicks)
          ~> (wait.outcome = "timedOut"))

\* activity without a silence of an idle window ended by the overall timer
C29_Witness ==
    /\ wait.st = "done"
    /\ wait.outcome = "timedOut"
    /\ wait.lastEvent # "none"
    /\ wait.maxGap < IdleTicks
    /\ wait.clock = TimeoutTicks

\* the trimmed texts that the selectors of a page find, in order, and the
\* first of them that is not empty ('' when there is none)
StrategyTexts(page) ==
    [k \in 1..Len(page) |->
        IF page[k] = Null THEN <<>> ELSE Trim(page[k].v)]

FirstNonEmpty(texts) ==
    IF \E k \in 1..Len(texts) : texts[k] # <<>>
    THEN texts[CHOOSE k \in 1..Len(texts) :
                  /\ texts[k] # <<>>
                  /\ \A j \in 1..(k - 1) : texts[j] = <<>>]
    ELSE <<>>

\* C30: on every page the title resolves to the text of the first
\* selector, in order, whose text is not empty, and the extraction fails
\* exactly when no selector of the title has a text that is not empty.
C30_FirstNonEmptyStrategy ==
    call.returned =>
        /\ call.title = FirstNonEmpty(StrategyTexts(call.page))
        /\ call.failed <=>
              (\A k \in 1..Len(call.page) :
                  StrategyTexts(call.page)[k] = <<>>)

\* C31: extractChapterContent uses the first container, in selector order,
\* whose trimmed text is longer than 100 characters, fails when no
\* container is, and never accepts a container of 100 characters or fewer.
C31_ContainerThreshold ==
    call.returned =>
        LET long == {k \in 1..Len(call.page) :
                        /\ call.page[k] # Null
                        /\ call.page[k].length > 100}
        IN  /\ call.failed <=> (long = {})
            /\ ~call.failed =>
                  /\ call.container.length > 100
                  /\ call.container =
                        call.page[CHOOSE k \in long : \A j \in long : k <= j]

\* C32: loadAllChapters returns on every page; it clicks a load-more
\* control at most 10 times, clicks none after an evaluation that found no
\* control, and has scrolled to the bottom exactly once when it returns.
C32_LoadMoreTerminates ==
    /\ <>(call.pc = "returned")
    /\ [](call.clicks <= 10)
    /\ [](call.pc = "returned" =>
             /\ call.scrolls = 1
             /\ (~call.loadMoreFound \/ call.clicks = 10))
    /\ [][~call.loadMoreFound => call'.clicks = call.clicks]_vars
    /\ [][call'.scrolls # call.scrolls =>
             (call.scrolls = 0 /\ (~call.loadMoreFound \/ call.clicks = 10))]_vars

\* a page that always shows a control was left after ten clicks
C32_Witness ==
    /\ call.pc = "returned"
    /\ call.loadMoreFound
    /\ call.clicks = 10
    /\ call.scrolls = 1

\* C33: extractChapterList returns the items of the page's links in
\* ascending order of their numeric index, and fails whenever no item
\* resolves.
C33_ListingSorted ==
    call.returned =>
        /\ call.failed <=> (Len(call.links) = 0)
        /\ ~call.failed =>
              /\ \A k \in 1..(Len(call.chapters) - 1) :
                    call.chapters[k].index <= call.chapters[k + 1].index
              /\ Len(call.chapters) = Len(call.links)
              /\ {call.chapters[k].link : k \in 1..Len(call.chapters)}
                    = 1..Len(call.links)

\* links in the order chapter 2, chapter 1 come back as chapter 1, chapter 2
C33_Witness ==
    /\ call.returned
    /\ ~call.failed
    /\ Len(call.links) = 2
    /\ call.links[1].urlNum = 2
    /\ call.links[2].urlNum = 1
    /\ call.chapters[1].link = 2
    /\ call.chapters[2].link = 1

\* C34: whatever chapter links the page has, the items that the listing
\* phase leaves in the state have distinct ids, and the index of each is a
\* positive integer.
C34_ItemsUniquePositive ==
    (call.returned /\ ~call.failed) =>
        /\ \A j, k \in 1..Len(call.chapters) :
              call.chapters[j].id = call.chapters[k].id => j = k
        /\ \A k \in 1..Len(call.chapters) : call.chapters[k].index >= 1

\* the place of a phase of scrape() in the order of the phases
PhaseRank(p) ==
    CASE p = "new"      -> 0
      [] p = "ready"    -> 1
      [] p = "load"     -> 2
      [] p = "metadata" -> 3
      [] p = "listing"  -> 4
      [] p = "select"   -> 5
      [] p = "scraping" -> 6
      [] p = "finally"  -> 7
      [] OTHER          -> 8

\* C35: within a run the phases follow one another only in the order
\* load/init, metadata, listing, scraping, finalizing; the metadata are
\* extracted exactly when the loaded state has none and the listing exactly
\* when it has no items; tasks exist only when the state has both.
C35_PhaseOrder ==
    /\ [][run' = run => PhaseRank(pc') >= PhaseRank(pc)]_vars
    /\ [][(pc = "metadata" /\ pc' # "metadata") =>
            ((pc' = "finally" \/ state' # state)
                <=> ~Truthy(state.metadata))]_vars
    /\ [][(pc = "listing" /\ pc' # "listing") =>
            ((pc' = "finally" \/ state' # state)
                <=> Len(ChaptersOf(state)) = 0)]_vars
    /\ [](tasks # <<>> =>
            /\ state # NoState
            /\ Truthy(state.metadata)
            /\ Len(ChaptersOf(state)) > 0)

\* a second run, whose loaded state has metadata and items, has passed both
\* extraction phases
C35_Witness ==
    /\ run = 2
    /\ previous # {}
    /\ pc = "scraping"
    /\ state.metadata = Metadata(Len(site))

\* C36: while the chapters are scraped a change of the state changes only
\* completedChapters, lastCompletedIndex and lastUpdated, never url,
\* metadata or the items; and a task that has failed has changed nothing:
\* the completed ids that were not loaded hold the id of no failed task.
C36_CommitFrame ==
    /\ [][(pc = "scraping" /\ pc' = "scraping" /\ state' # state) =>
            /\ state'.url = state.url
            /\ state'.metadata = state.metadata
            /\ state'.chapters = state.chapters
            /\ \E i \in 1..Len(tasks) :
                  /\ tasks[i].pc = "page"
                  /\ state' = commit(state, tasks[i].chapter)]_vars
    /\ [](\A i \in 1..Len(tasks) :
            tasks[i].pc = "failed" =>
                tasks[i].chapter.id \notin (completedIds \ loaded))

\* C37: when scrape() has settled, by a return or by a throw of any phase,
\* the browser is closed and no page of a task is open.
C37_ResourcesReleased ==
    pc = "done" => (~browser /\ openPages = 0)

\* C38: every id that this run has added to completedChapters is the id of
\* a chapter whose content was extracted and whose file was written, and an
\* attempt that fails in the extraction or in the write of the file leaves
\* completedChapters as it was.
C38_CommitAfterArtifact ==
    /\ [](\A id \in completedIds \ loaded :
            \E i \in 1..Len(tasks) :
                tasks[i].chapter.id = id /\ tasks[i].artifact)
    /\ [][\A i \in 1..Len(tasks) :
            (/\ Len(tasks') = Len(tasks)
             /\ tasks[i].pc \in {"page", "dead"}
             /\ tasks'[i].pc \in {"sleep", "failed"}) =>
                CompletedOf(state') = CompletedOf(state)]_vars

\* one task was committed with its file written, another has failed and
\* left no id
C38_Witness ==
    \E i, j \in 1..Len(tasks) :
        /\ tasks[i].pc = "ok"
        /\ tasks[i].artifact
        /\ tasks[i].chapter.id \in completedIds \ loaded
        /\ tasks[j].pc = "failed"
        /\ ~tasks[j].artifact
        /\ tasks[j].chapter.id \notin completedIds

\* C39: the checkpoint on disk never regresses within a run: a write of
\* state.json after which no save is in flight leaves on disk every
\* completed id that was there before, the most recently issued save being
\* the one that holds the most.
C39_CheckpointNeverRegresses ==
    [][(/\ run' = run
        /\ file' # file
        /\ file.t = "object"
        /\ file'.t = "object"
        /\ \A i \in 1..Len(tasks') : tasks'[i].pc # "saving") =>
            Range(CompletedOf(file)) \subseteq Range(CompletedOf(file'))]_vars

\* C40: when scrapeChapters has settled, the successful count of its
\* summary is the number of tasks whose fetch succeeded, the failed count
\* is the number of exhausted tasks, and the two add up to the number of
\* scheduled tasks.
C40_SummaryExact ==
    scrapeChaptersReturned =>
        LET s == summary(taskResults(tasks))
        IN  /\ s.successful =
                  Cardinality({i \in 1..Len(tasks) : tasks[i].pc = "ok"})
            /\ s.failed =
                  Cardinality({i \in 1..Len(tasks) : tasks[i].pc = "failed"})
            /\ s.successful + s.failed = Len(tasks)

====
